---- MODULE Spec2Model ----
(***************************************************************************)
(* Project-KV: the storage engine (kvstorage/mod.rs: an ordered in-memory  *)
(* index over encoded keys backed by an append-only log) and the           *)
(* per-connection request loop of the server (kvserver/mod.rs:             *)
(* handle_connection), which calls the engine under a reader/writer lock.  *)
(*                                                                         *)
(* The modules disklog, chunktps and kvserver::protocol are used by the    *)
(* sources but are not among them; what the model needs of them (an append *)
(* that succeeds or fails, a chunk read or write that succeeds or fails,   *)
(* the two size constants of the scan pagination) is modelled from the     *)
(* specification and marked so where it is defined.                        *)
(***************************************************************************)
EXTENDS Integers, Sequences, FiniteSets, TLC

(***************************************************************************)
(* Program constants.                                                      *)
(***************************************************************************)
KEY_SIZE == 8

VALUE_SIZE == 256

\* kvserver::protocol::KV_PAIR_SERIALIZED_SIZE: one key followed by one value.
KV_PAIR_SERIALIZED_SIZE == KEY_SIZE + VALUE_SIZE

\* chunktps::CHUNK_MAX_SIZE.  Its value is not in the sources; the one used
\* here makes a page of a scan reply hold two pairs, so that a scan of three
\* keys is paginated.
CHUNK_MAX_SIZE == 600

\* const ROW_PER_CHUNK: usize = (CHUNK_MAX_SIZE - 1) / KV_PAIR_SERIALIZED_SIZE;
ROW_PER_CHUNK == (CHUNK_MAX_SIZE - 1) \div KV_PAIR_SERIALIZED_SIZE

(***************************************************************************)
(* Bounds of the model.                                                    *)
(***************************************************************************)
\* The log file holds at most MaxLog records: once it is full every append fails.
MaxLog == 4

\* The server reads at most MaxReqs request chunks in all.
MaxReqs == 4

(***************************************************************************)
(* Keys, values, requests.                                                 *)
(***************************************************************************)
\* Option::None
None == "None"

\* The keys the clients use: arrays of KEY_SIZE bytes.
Keys ==
    { <<0, 0, 0, 0, 0, 0, 0, 2>>,
      <<0, 0, 0, 0, 0, 0, 1, 0>>,
      <<0, 0, 0, 0, 0, 0, 1, 1>> }

\* The bounds of the scans: the keys above and one key greater than all of
\* them, without which no scan would reach the greatest key.
ScanKeys == Keys \cup { <<0, 0, 0, 0, 0, 0, 2, 0>> }

\* The values the clients use: two distinct arrays of VALUE_SIZE bytes, by name.
Values == {"v1", "v2"}

\* The connections (one handle_connection call each).
Conns == {1}

NoConn == 0

Requests ==
    [op : {"Get"}, key : Keys]
    \cup [op : {"Put"}, key : Keys, value : Values]
    \cup [op : {"Del"}, key : Keys]
    \cup [op : {"Scan"}, key1 : ScanKeys, key2 : ScanKeys]
    \cup [op : {"Close"}]

NoReq == [op |-> "NoReq"]

(***************************************************************************)
(* Key::encode / Key::decode: the big-endian reading of the 8 bytes.       *)
(***************************************************************************)
\* u64::from_be(*flat): the first byte is the most significant.
encode(key) ==
    ((((((key[1] * 256 + key[2]) * 256 + key[3]) * 256 + key[4]) * 256
        + key[5]) * 256 + key[6]) * 256 + key[7]) * 256 + key[8]

\* u64::to_be(encoded) read as [u8; 8]: the most significant byte first
\* (high is the upper four bytes, encoded >> 32).
decode(encoded) ==
    LET high == (encoded \div 16777216) \div 256
    IN  << (high \div 16777216) % 256,
           (high \div 65536) % 256,
           (high \div 256) % 256,
           high % 256,
           (encoded \div 16777216) % 256,
           (encoded \div 65536) % 256,
           (encoded \div 256) % 256,
           encoded % 256 >>

(***************************************************************************)
(* The index: BTreeMap<InternKey, Option<Arc<Value>>>, a function from the *)
(* encoded keys that have an entry to a value or None (a tombstone).       *)
(***************************************************************************)
EmptyMap == [x \in {} |-> None]

\* BTreeMap::insert
insert(m, e, v) == [x \in DOMAIN m \cup {e} |-> IF x = e THEN v ELSE m[x]]

\* BTreeMap::remove
remove(m, e) == [x \in DOMAIN m \ {e} |-> m[x]]

\* *maybe_value = None, through BTreeMap::get_mut
set_none(m, e) == [m EXCEPT ![e] = None]

\* KVStorage::get
get(m, key) ==
    LET encoded_key == encode(key)
    IN  IF encoded_key \in DOMAIN m THEN m[encoded_key] ELSE None

\* The entries with keys in S as the iterator of a BTreeMap yields them, in
\* ascending order of the keys, each mapped to (Key::decode(*k), value).
RECURSIVE ascending(_, _)
ascending(m, S) ==
    IF S = {}
    THEN <<>>
    ELSE LET least == CHOOSE x \in S : \A y \in S : x <= y
         IN  << <<decode(least), m[least]>> >> \o ascending(m, S \ {least})

\* BTreeMap::range((Included(a), Excluded(b))) panics when a > b
\* ("range start is greater than range end in BTreeMap").
range_panics(a, b) == a > b

\* Whether KVStorage::scan panics: it calls range() on the two encoded keys.
scan_panics(key1, key2) == range_panics(encode(key1), encode(key2))

\* KVStorage::scan, when range() returns: the entries of [key1, key2) that
\* hold a value, each as (Key::decode(k), value), in the order of the map.
scan(m, key1, key2) ==
    LET encoded_key1 == encode(key1)
        encoded_key2 == encode(key2)
        hit == { x \in DOMAIN m :
                    /\ encoded_key1 <= x
                    /\ x < encoded_key2
                    /\ m[x] # None }
    IN  ascending(m, hit)

(***************************************************************************)
(* The log: the sequence of DiskLogMessage records in the file.            *)
(***************************************************************************)
PutMsg(key, value) == [type |-> "Put", key |-> key, value |-> value]

DeleteMsg(key) == [type |-> "Delete", key |-> key]

\* DiskLogWriter::write, when it returns Ok: the record is added at the end of
\* the file.  When it returns Err the file is taken to be as it was (disklog is
\* not among the sources; DiskLogReader::next_log is taken to return the
\* records written, in order, and None at the end of the file).
log_writer_write(records, log_msg) == Append(records, log_msg)

\* A replay that skips the Delete records (not the program's).
apply_log_msg_put_only(ret, log_msg) ==
    IF log_msg.type = "Put"
    THEN insert(ret, encode(log_msg.key), log_msg.value)
    ELSE ret

\* A replay that turns the entry of a deleted key into a tombstone, as the
\* live delete does (not the program's).
apply_log_msg_tombstone(ret, log_msg) ==
    IF log_msg.type = "Put"
    THEN insert(ret, encode(log_msg.key), log_msg.value)
    ELSE IF encode(log_msg.key) \in DOMAIN ret
         THEN set_none(ret, encode(log_msg.key))
         ELSE ret

\* One step of the loop of read_log_file.
apply_log_msg(ret, log_msg) ==
    IF log_msg.type = "Put"
    THEN insert(ret, encode(log_msg.key), log_msg.value)
    ELSE remove(ret, encode(log_msg.key))

\* KVStorage::read_log_file
RECURSIVE replay(_, _, _)
replay(ret, records, n) ==
    IF n > Len(records)
    THEN ret
    ELSE replay(apply_log_msg(ret, records[n]), records, n + 1)

\* A replay that rebuilds the index as the live engine left it, tombstones
\* included (not the program's).
RECURSIVE replay_live(_, _, _)
replay_live(ret, records, n) ==
    IF n > Len(records)
    THEN ret
    ELSE replay_live(apply_log_msg_tombstone(ret, records[n]), records, n + 1)

read_log_file_live(records) == replay_live(EmptyMap, records, 1)

read_log_file(records) == replay(EmptyMap, records, 1)

(***************************************************************************)
(* The state.                                                              *)
(***************************************************************************)
VARIABLES
    mem_storage,   \* KVStorage.mem_storage
    log,           \* the records in the log file, oldest first
    write_guard,   \* the connection holding the RwLock exclusively, or NoConn
    pc,            \* pc[c]: where the handler of connection c stands
    req,           \* req[c]: the request it read last
    res,           \* res[c]: what the engine call of that request returned
    scan_result,   \* scan_result[c]: the Vec returned by scan
    idx,           \* idx[c]: the loop variable i of the scan reply
    sent,          \* sent[c]: the chunks written in reply to req[c], in order
    fault,         \* fault[c]: the call whose error ended the handler
    nreq,          \* the number of read_chunk calls made so far
    server,        \* run_server: the accept loop and the drop of the pool
    queue,         \* the messages in the channel of the pool, oldest first
    queue_lock,    \* the worker holding the Mutex of the receiver, or NoWorker
    workers,       \* workers[w]: the thread of worker w and the job it runs
    codec,         \* a call of Key::encode and Key::decode on given bytes
    replay_pos     \* the records that the loop of read_log_file has read

vars ==
    << mem_storage, log, write_guard, pc, req, res, scan_result, idx, sent,
       fault, nreq, server, queue, queue_lock, workers, codec, replay_pos >>

\* What the handlers of the connections and the engine read and write.
handler == << mem_storage, log, write_guard, pc, req, res, scan_result, idx, sent,
             fault, nreq >>

\* The thread pool and the accept loop.
pool == << server, queue, queue_lock, workers >>

engine == << mem_storage, log >>

\* ServerReplyChunk
SingleValue(maybe_value) == [tag |-> "SingleValue", value |-> maybe_value]

Success == [tag |-> "Success"]

Error == [tag |-> "Error"]

Number(n) == [tag |-> "Number", n |-> n]

KVPairs(pairs) == [tag |-> "KVPairs", pairs |-> pairs]

\* vec![]: the chunk of length zero that ends a scan reply
EmptyChunk == [tag |-> "Empty"]

\* Result: Ok(v) and Err(e) of an engine call; Ok(()) is Ok(None).
Ok(v) == [err |-> FALSE, val |-> v]

Err == [err |-> TRUE, val |-> None]

\* The arm of the match that a decoded request selects.
dispatch(request) ==
    CASE request.op = "Get" -> "get"
      [] request.op = "Put" -> "put"
      [] request.op = "Del" -> "del"
      [] request.op = "Scan" -> "scan"
      [] request.op = "Close" -> "closed"

\* A reply that reports a missing key as an error (not the program's).
reply_chunk_missing_is_error(request, result) ==
    CASE request.op = "Get" ->
            IF result.val = None THEN Error ELSE SingleValue(result.val)
      [] request.op = "Put" -> IF result.err THEN Error ELSE Success
      [] request.op = "Del" -> IF result.err THEN Error ELSE Number(result.val)

\* The chunk written for a Get, a Put or a Del, from the engine's result.
reply_chunk(request, result) ==
    CASE request.op = "Get" -> SingleValue(result.val)
      [] request.op = "Put" -> IF result.err THEN Error ELSE Success
      [] request.op = "Del" -> IF result.err THEN Error ELSE Number(result.val)

\* A slice whose last page stops one pair early (not the program's).
page_short(result, i) ==
    IF i + ROW_PER_CHUNK < Len(result)
    THEN SubSeq(result, i + 1, i + ROW_PER_CHUNK)
    ELSE SubSeq(result, i + 1, Len(result) - 1)

\* The slice of the scan result written as one KVPairs chunk, from offset i.
page(result, i) ==
    IF i + ROW_PER_CHUNK < Len(result)
    THEN SubSeq(result, i + 1, i + ROW_PER_CHUNK)
    ELSE SubSeq(result, i + 1, Len(result))

\* Dropping the guard of the match scrutinee, if this connection holds it.
released(c) == IF write_guard = c THEN NoConn ELSE write_guard

(***************************************************************************)
(* The thread pool (threadpool/mod.rs) and the accept loop of run_server.  *)
(***************************************************************************)
\* config.threads, the size given to ThreadPool::new.
NumWorkers == 2

\* Worker.id
Workers == 1..NumWorkers

NoWorker == 0

\* Message::NewJob(job), the job being handle_connection of connection c.
NewJob(c) == [msg |-> "NewJob", conn |-> c]

\* Message::Terminate
Terminate == [msg |-> "Terminate"]

\* ThreadPool::new: every worker thread spawned, at the top of its loop, the
\* channel empty; run_server about to enter its accept loop.
PoolInit ==
    /\ server = [at |-> "accept", terminates |-> 0, joined |-> 0]
    /\ queue = <<>>
    /\ queue_lock = NoWorker
    /\ workers = [w \in Workers |-> [thread |-> "idle", job |-> NoConn]]

\* No call of the codec under way, no log file being read.
NoCall == [at |-> "none"]

Idle == codec = NoCall /\ replay_pos = 0

\* KVStorage::new on a fresh file; every connection at the top of its loop.
Init ==
    /\ PoolInit
    /\ Idle
    /\ mem_storage = EmptyMap
    /\ log = <<>>
    /\ write_guard = NoConn
    /\ pc = [c \in Conns |-> "read"]
    /\ req = [c \in Conns |-> NoReq]
    /\ res = [c \in Conns |-> Ok(None)]
    /\ scan_result = [c \in Conns |-> <<>>]
    /\ idx = [c \in Conns |-> 0]
    /\ sent = [c \in Conns |-> <<>>]
    /\ fault = [c \in Conns |-> "none"]
    /\ nreq = 0

(***************************************************************************)
(* handle_connection.                                                      *)
(***************************************************************************)
\* Request::deserialize_from(chunktps.read_chunk()?)? and the match on it.
ReadChunk(c) ==
    /\ pc[c] = "read"
    /\ nreq < MaxReqs
    /\ nreq' = nreq + 1
    /\ \/ /\ pc' = [pc EXCEPT ![c] = "failed"]
          /\ fault' = [fault EXCEPT ![c] = "read"]
          /\ UNCHANGED << req, res, scan_result, idx, sent >>
       \/ /\ pc' = [pc EXCEPT ![c] = "failed"]
          /\ fault' = [fault EXCEPT ![c] = "decode"]
          /\ UNCHANGED << req, res, scan_result, idx, sent >>
       \/ \E request \in Requests :
            /\ req' = [req EXCEPT ![c] = request]
            /\ pc' = [pc EXCEPT ![c] = dispatch(request)]
            /\ res' = [res EXCEPT ![c] = Ok(None)]
            /\ scan_result' = [scan_result EXCEPT ![c] = <<>>]
            /\ idx' = [idx EXCEPT ![c] = 0]
            /\ sent' = [sent EXCEPT ![c] = <<>>]
            /\ UNCHANGED fault
    /\ UNCHANGED << mem_storage, log, write_guard >>

\* A get that reads the index without taking the lock (not the program's).
Get_unlocked(c) ==
    /\ pc[c] = "get"
    /\ res' = [res EXCEPT ![c] = Ok(get(mem_storage, req[c].key))]
    /\ pc' = [pc EXCEPT ![c] = "reply"]
    /\ UNCHANGED << mem_storage, log, write_guard, req, scan_result, idx, sent,
                    fault, nreq >>

\* storage_engine.read().unwrap().get(&key): the shared lock is taken and
\* dropped within the statement.
Get(c) ==
    /\ pc[c] = "get"
    /\ write_guard = NoConn
    /\ res' = [res EXCEPT ![c] = Ok(get(mem_storage, req[c].key))]
    /\ pc' = [pc EXCEPT ![c] = "reply"]
    /\ UNCHANGED << mem_storage, log, write_guard, req, scan_result, idx, sent,
                    fault, nreq >>

\* A put that upserts the index before it writes the log (not the program's).
PutAppend_index_first(c) ==
    /\ pc[c] = "put"
    /\ write_guard = NoConn
    /\ write_guard' = c
    /\ mem_storage' = insert(mem_storage, encode(req[c].key), req[c].value)
    /\ \/ /\ Len(log) < MaxLog
          /\ log' = log_writer_write(log, PutMsg(req[c].key, req[c].value))
          /\ pc' = [pc EXCEPT ![c] = "put_insert"]
          /\ UNCHANGED res
       \/ /\ res' = [res EXCEPT ![c] = Err]
          /\ pc' = [pc EXCEPT ![c] = "reply"]
          /\ UNCHANGED log
    /\ UNCHANGED << req, scan_result, idx, sent, fault, nreq >>

\* A put that does not wait for the lock to be free (not the program's).
PutAppend_unlocked(c) ==
    /\ pc[c] = "put"
    /\ write_guard' = c
    /\ \/ /\ Len(log) < MaxLog
          /\ log' = log_writer_write(log, PutMsg(req[c].key, req[c].value))
          /\ pc' = [pc EXCEPT ![c] = "put_insert"]
          /\ UNCHANGED res
       \/ /\ res' = [res EXCEPT ![c] = Err]
          /\ pc' = [pc EXCEPT ![c] = "reply"]
          /\ UNCHANGED log
    /\ UNCHANGED << mem_storage, req, scan_result, idx, sent, fault, nreq >>

\* storage_engine.write().unwrap().put(..), up to and including
\* self.log_writer.write(DiskLogMessage::Put(..))?
PutAppend(c) ==
    /\ pc[c] = "put"
    /\ write_guard = NoConn
    /\ write_guard' = c
    /\ \/ /\ Len(log) < MaxLog
          /\ log' = log_writer_write(log, PutMsg(req[c].key, req[c].value))
          /\ pc' = [pc EXCEPT ![c] = "put_insert"]
          /\ UNCHANGED res
       \/ /\ res' = [res EXCEPT ![c] = Err]
          /\ pc' = [pc EXCEPT ![c] = "reply"]
          /\ UNCHANGED log
    /\ UNCHANGED << mem_storage, req, scan_result, idx, sent, fault, nreq >>

\* A put whose guard is dropped once the index is updated, before the reply
\* is written (not the program's).
PutInsert_drop_guard(c) ==
    /\ pc[c] = "put_insert"
    /\ mem_storage' = insert(mem_storage, encode(req[c].key), req[c].value)
    /\ res' = [res EXCEPT ![c] = Ok(None)]
    /\ pc' = [pc EXCEPT ![c] = "reply"]
    /\ write_guard' = NoConn
    /\ UNCHANGED << log, req, scan_result, idx, sent, fault, nreq >>

\* A put that keeps the entry of a key that has one (not the program's).
PutInsert_keep(c) ==
    /\ pc[c] = "put_insert"
    /\ mem_storage' =
         IF encode(req[c].key) \in DOMAIN mem_storage
         THEN mem_storage
         ELSE insert(mem_storage, encode(req[c].key), req[c].value)
    /\ res' = [res EXCEPT ![c] = Ok(None)]
    /\ pc' = [pc EXCEPT ![c] = "reply"]
    /\ UNCHANGED << log, write_guard, req, scan_result, idx, sent, fault, nreq >>

\* self.mem_storage.insert(encoded_key, Some(value)); Ok(())
PutInsert(c) ==
    /\ pc[c] = "put_insert"
    /\ mem_storage' = insert(mem_storage, encode(req[c].key), req[c].value)
    /\ res' = [res EXCEPT ![c] = Ok(None)]
    /\ pc' = [pc EXCEPT ![c] = "reply"]
    /\ UNCHANGED << log, write_guard, req, scan_result, idx, sent, fault, nreq >>

\* A delete gated on the entry holding a value, so that the delete of a
\* tombstone returns 0 and writes nothing (not the program's).
DeleteAppend_value_gated(c) ==
    /\ pc[c] = "del"
    /\ write_guard = NoConn
    /\ write_guard' = c
    /\ IF get(mem_storage, req[c].key) # None
       THEN \/ /\ Len(log) < MaxLog
               /\ log' = log_writer_write(log, DeleteMsg(req[c].key))
               /\ pc' = [pc EXCEPT ![c] = "del_set"]
               /\ UNCHANGED res
            \/ /\ res' = [res EXCEPT ![c] = Err]
               /\ pc' = [pc EXCEPT ![c] = "reply"]
               /\ UNCHANGED log
       ELSE /\ res' = [res EXCEPT ![c] = Ok(0)]
            /\ pc' = [pc EXCEPT ![c] = "reply"]
            /\ UNCHANGED log
    /\ UNCHANGED << mem_storage, req, scan_result, idx, sent, fault, nreq >>

\* A Del arm that propagates the error of delete with `?`, ending the handler
\* (not the program's).
DeleteAppend_propagate(c) ==
    /\ pc[c] = "del"
    /\ write_guard = NoConn
    /\ IF encode(req[c].key) \in DOMAIN mem_storage
       THEN \/ /\ Len(log) < MaxLog
               /\ log' = log_writer_write(log, DeleteMsg(req[c].key))
               /\ pc' = [pc EXCEPT ![c] = "del_set"]
               /\ write_guard' = c
               /\ UNCHANGED << res, fault >>
            \/ /\ res' = [res EXCEPT ![c] = Err]
               /\ pc' = [pc EXCEPT ![c] = "failed"]
               /\ fault' = [fault EXCEPT ![c] = "write"]
               /\ UNCHANGED << log, write_guard >>
       ELSE /\ res' = [res EXCEPT ![c] = Ok(0)]
            /\ pc' = [pc EXCEPT ![c] = "reply"]
            /\ write_guard' = c
            /\ UNCHANGED << log, fault >>
    /\ UNCHANGED << mem_storage, req, scan_result, idx, sent, nreq >>

\* storage_engine.write().unwrap().delete(..), up to and including
\* self.log_writer.write(DiskLogMessage::Delete(..))?, or Ok(0)
DeleteAppend(c) ==
    /\ pc[c] = "del"
    /\ write_guard = NoConn
    /\ write_guard' = c
    /\ IF encode(req[c].key) \in DOMAIN mem_storage
       THEN \/ /\ Len(log) < MaxLog
               /\ log' = log_writer_write(log, DeleteMsg(req[c].key))
               /\ pc' = [pc EXCEPT ![c] = "del_set"]
               /\ UNCHANGED res
            \/ /\ res' = [res EXCEPT ![c] = Err]
               /\ pc' = [pc EXCEPT ![c] = "reply"]
               /\ UNCHANGED log
       ELSE /\ res' = [res EXCEPT ![c] = Ok(0)]
            /\ pc' = [pc EXCEPT ![c] = "reply"]
            /\ UNCHANGED log
    /\ UNCHANGED << mem_storage, req, scan_result, idx, sent, fault, nreq >>

\* *maybe_value = None; Ok(1)
DeleteSet(c) ==
    /\ pc[c] = "del_set"
    /\ mem_storage' = set_none(mem_storage, encode(req[c].key))
    /\ res' = [res EXCEPT ![c] = Ok(1)]
    /\ pc' = [pc EXCEPT ![c] = "reply"]
    /\ UNCHANGED << log, write_guard, req, scan_result, idx, sent, fault, nreq >>

\* A reply whose write error is dropped, the loop going on (not the program's).
WriteReply_ignore_error(c) ==
    /\ pc[c] = "reply"
    /\ write_guard' = released(c)
    /\ \/ sent' = [sent EXCEPT ![c] = Append(@, reply_chunk(req[c], res[c]))]
       \/ UNCHANGED sent
    /\ pc' = [pc EXCEPT ![c] = "read"]
    /\ UNCHANGED << mem_storage, log, req, res, scan_result, idx, fault, nreq >>

\* A reply after which the write guard of a Put or Del is kept, as if it
\* were bound to a variable of the loop (not the program's).
WriteReply_keep_guard(c) ==
    /\ pc[c] = "reply"
    /\ \/ /\ sent' = [sent EXCEPT ![c] = Append(@, reply_chunk(req[c], res[c]))]
          /\ pc' = [pc EXCEPT ![c] = "read"]
          /\ UNCHANGED fault
       \/ /\ pc' = [pc EXCEPT ![c] = "failed"]
          /\ fault' = [fault EXCEPT ![c] = "write"]
          /\ UNCHANGED sent
    /\ UNCHANGED << mem_storage, log, write_guard, req, res, scan_result, idx,
                    nreq >>

\* chunktps.write_chunk(ServerReplyChunk::X.serialize())? of Get, Put and Del;
\* the write guard of a Put or Del is dropped at the end of its match.
WriteReply(c) ==
    /\ pc[c] = "reply"
    /\ write_guard' = released(c)
    /\ \/ /\ sent' = [sent EXCEPT ![c] = Append(@, reply_chunk(req[c], res[c]))]
          /\ pc' = [pc EXCEPT ![c] = "read"]
          /\ UNCHANGED fault
       \/ /\ pc' = [pc EXCEPT ![c] = "failed"]
          /\ fault' = [fault EXCEPT ![c] = "write"]
          /\ UNCHANGED sent
    /\ UNCHANGED << mem_storage, log, req, res, scan_result, idx, nreq >>

\* let scan_result = storage_engine.read().unwrap().scan(&key1, &key2);
\* a panic of scan unwinds the thread that runs the handler.
Scan(c) ==
    /\ pc[c] = "scan"
    /\ write_guard = NoConn
    /\ IF scan_panics(req[c].key1, req[c].key2)
       THEN /\ pc' = [pc EXCEPT ![c] = "panicked"]
            /\ UNCHANGED scan_result
       ELSE /\ pc' = [pc EXCEPT ![c] = "scan_reply"]
            /\ scan_result' =
                 [scan_result EXCEPT
                    ![c] = scan(mem_storage, req[c].key1, req[c].key2)]
    /\ UNCHANGED << mem_storage, log, write_guard, req, res, idx, sent, fault,
                    nreq >>

\* A page taken from the index as it is when the page is written, as a lazy
\* scan would (not the program's).
ScanWritePage_lazy(c) ==
    /\ pc[c] = "scan_reply"
    /\ idx[c] < Len(scan_result[c])
    /\ \/ /\ sent' = [sent EXCEPT
                        ![c] = Append(@, KVPairs(page(scan(mem_storage,
                                                           req[c].key1,
                                                           req[c].key2),
                                                      idx[c])))]
          /\ idx' = [idx EXCEPT ![c] = @ + ROW_PER_CHUNK]
          /\ UNCHANGED << pc, fault >>
       \/ /\ pc' = [pc EXCEPT ![c] = "failed"]
          /\ fault' = [fault EXCEPT ![c] = "write"]
          /\ UNCHANGED << sent, idx >>
    /\ UNCHANGED << mem_storage, log, write_guard, req, res, scan_result, nreq >>

\* One iteration of for i in (0..scan_result.len()).step_by(ROW_PER_CHUNK).
ScanWritePage(c) ==
    /\ pc[c] = "scan_reply"
    /\ idx[c] < Len(scan_result[c])
    /\ \/ /\ sent' = [sent EXCEPT
                        ![c] = Append(@, KVPairs(page(scan_result[c], idx[c])))]
          /\ idx' = [idx EXCEPT ![c] = @ + ROW_PER_CHUNK]
          /\ UNCHANGED << pc, fault >>
       \/ /\ pc' = [pc EXCEPT ![c] = "failed"]
          /\ fault' = [fault EXCEPT ![c] = "write"]
          /\ UNCHANGED << sent, idx >>
    /\ UNCHANGED << mem_storage, log, write_guard, req, res, scan_result, nreq >>

\* chunktps.write_chunk(vec![])? after the loop.
ScanWriteEnd(c) ==
    /\ pc[c] = "scan_reply"
    /\ idx[c] >= Len(scan_result[c])
    /\ \/ /\ sent' = [sent EXCEPT ![c] = Append(@, EmptyChunk)]
          /\ pc' = [pc EXCEPT ![c] = "read"]
          /\ UNCHANGED fault
       \/ /\ pc' = [pc EXCEPT ![c] = "failed"]
          /\ fault' = [fault EXCEPT ![c] = "write"]
          /\ UNCHANGED sent
    /\ UNCHANGED << mem_storage, log, write_guard, req, res, scan_result, idx,
                    nreq >>

(***************************************************************************)
(* The process stops (at any point) and run_server starts again:           *)
(* create_storage_engine finds the file, rebuilds the index with           *)
(* read_log_file and reopens the file for appending; the connections of    *)
(* the old process are gone and new ones start at the top of the loop.     *)
(***************************************************************************)
Restart ==
    /\ log # <<>>
    /\ mem_storage' = read_log_file(log)
    /\ write_guard' = NoConn
    /\ pc' = [c \in DOMAIN pc |-> "read"]
    /\ req' = [c \in DOMAIN pc |-> NoReq]
    /\ res' = [c \in DOMAIN pc |-> Ok(None)]
    /\ scan_result' = [c \in DOMAIN pc |-> <<>>]
    /\ idx' = [c \in DOMAIN pc |-> 0]
    /\ sent' = [c \in DOMAIN pc |-> <<>>]
    /\ fault' = [c \in DOMAIN pc |-> "none"]
    /\ UNCHANGED << log, nreq, pool, codec, replay_pos >>

\* The steps of the handlers of the connections, and the restart; the
\* connections are taken as handed to their handlers already.
Next ==
    \/ \E c \in DOMAIN pc : ReadChunk(c) /\ UNCHANGED << pool, codec, replay_pos >>
    \/ \E c \in DOMAIN pc : Get(c) /\ UNCHANGED << pool, codec, replay_pos >>
    \/ \E c \in DOMAIN pc : PutAppend(c) /\ UNCHANGED << pool, codec, replay_pos >>
    \/ \E c \in DOMAIN pc : PutInsert(c) /\ UNCHANGED << pool, codec, replay_pos >>
    \/ \E c \in DOMAIN pc : DeleteAppend(c) /\ UNCHANGED << pool, codec, replay_pos >>
    \/ \E c \in DOMAIN pc : DeleteSet(c) /\ UNCHANGED << pool, codec, replay_pos >>
    \/ \E c \in DOMAIN pc : WriteReply(c) /\ UNCHANGED << pool, codec, replay_pos >>
    \/ \E c \in DOMAIN pc : Scan(c) /\ UNCHANGED << pool, codec, replay_pos >>
    \/ \E c \in DOMAIN pc : ScanWritePage(c) /\ UNCHANGED << pool, codec, replay_pos >>
    \/ \E c \in DOMAIN pc : ScanWriteEnd(c) /\ UNCHANGED << pool, codec, replay_pos >>
    \/ Restart

Spec == Init /\ [][Next]_vars

(***************************************************************************)
(* Steps, as seen from a pair of states.                                   *)
(***************************************************************************)
\* The process was restarted in this step.
RestartStep ==
    /\ pc' = [c \in DOMAIN pc |-> "read"]
    /\ req' = [c \in DOMAIN pc |-> NoReq]
    /\ mem_storage' = read_log_file(log)

\* Connection c went from position a to position b in this step.
Moved(c, a, b) == pc[c] = a /\ pc'[c] = b

\* Connection c wrote the last chunk of its reply from position a and is back
\* at the top of the loop.
Replied(c, a) == pc[c] = a /\ pc'[c] = "read" /\ req'[c] = req[c]

\* put(k, _) or delete(k) of some connection has appended its record and not
\* yet changed the index.
Mutating(k) ==
    \E c \in DOMAIN pc : pc[c] \in {"put_insert", "del_set"} /\ req[c].key = k

Quiescent == \A c \in DOMAIN pc : pc[c] \notin {"put_insert", "del_set"}

(***************************************************************************)
(* C1. Put/Get round trip: when put(k, v) returns Ok, get(k) is Some(v);   *)
(* get(k) changes only in a step of a put or delete of the same key k, so  *)
(* it stays v whatever is done to other keys; and a Get request is         *)
(* answered with get(k) of the index at that moment.                       *)
(***************************************************************************)
PutGetRoundTrip ==
    [][ /\ \A c \in DOMAIN pc :
             /\ Moved(c, "put_insert", "reply") =>
                  /\ res'[c] = Ok(None)
                  /\ get(mem_storage', req[c].key) = req[c].value
             /\ Moved(c, "get", "reply") =>
                  /\ ~res'[c].err
                  /\ res'[c].val = get(mem_storage, req[c].key)
                  /\ mem_storage' = mem_storage
        /\ \A k \in Keys :
             get(mem_storage', k) # get(mem_storage, k) => Mutating(k)
      ]_vars

\* A Get is answered with the value put earlier although the last record of
\* the log, written since, is about another key.
PutGetRoundTripWitness ==
    \E c \in DOMAIN pc :
        /\ pc[c] = "reply"
        /\ req[c].op = "Get"
        /\ res[c].val \in Values
        /\ Len(log) >= 2
        /\ log[Len(log)].key # req[c].key

(***************************************************************************)
(* C2. put is all-or-nothing and writes the log first: put appends its Put *)
(* record while the index is still unchanged and only then upserts the     *)
(* entry; when the append fails it returns the error and the index is what *)
(* it was.  Hence every value the index holds has its Put record in the    *)
(* log.                                                                    *)
(***************************************************************************)
Logged(k, v) == \E j \in 1..Len(log) : log[j] = PutMsg(k, v)

WalFirst ==
    \A k \in Keys : get(mem_storage, k) # None => Logged(k, get(mem_storage, k))

\* C2: every value of the index is logged; the append leaves the index as it
\* was, whether it succeeds or fails; the upsert comes after it.
PutAllOrNothing ==
    /\ []WalFirst
    /\ [][ \A c \in DOMAIN pc :
             /\ (pc[c] = "put" /\ pc'[c] \notin {"put", "read"}) =>
                  /\ mem_storage' = mem_storage
                  /\ \/ /\ pc'[c] = "put_insert"
                        /\ log' = Append(log, PutMsg(req[c].key, req[c].value))
                     \/ /\ pc'[c] = "reply"
                        /\ res'[c] = Err
                        /\ log' = log
             /\ Moved(c, "put_insert", "reply") =>
                  /\ log' = log
                  /\ log[Len(log)] = PutMsg(req[c].key, req[c].value)
                  /\ \A k \in Keys \ {req[c].key} :
                        get(mem_storage', k) = get(mem_storage, k)
         ]_vars

\* A put has failed on a key that holds another value.
PutAllOrNothingWitness ==
    \E c \in DOMAIN pc :
        /\ pc[c] = "reply"
        /\ req[c].op = "Put"
        /\ res[c].err
        /\ get(mem_storage, req[c].key) \in Values \ {req[c].value}

(***************************************************************************)
(* C3. delete(k) with no entry for k returns Ok(0) and appends nothing;    *)
(* delete(k) with an entry, holding a value or already a tombstone,        *)
(* appends one Delete record (or returns the error of the append, leaving  *)
(* log and index as they were), then leaves a tombstone and returns Ok(1); *)
(* get(k) of a deleted key is None until a put of k.                       *)
(***************************************************************************)
HasEntry(k) == encode(k) \in DOMAIN mem_storage

\* C3: the result and the log record of delete follow from the presence of an
\* entry for the key; a deleted key reads None until a put of it.
DeleteSemantics ==
    [][ /\ \A c \in DOMAIN pc :
             /\ (pc[c] = "del" /\ pc'[c] \notin {"del", "read"}) =>
                  /\ mem_storage' = mem_storage
                  /\ IF HasEntry(req[c].key)
                     THEN \/ /\ pc'[c] = "del_set"
                             /\ log' = Append(log, DeleteMsg(req[c].key))
                          \/ /\ pc'[c] = "reply"
                             /\ res'[c] = Err
                             /\ log' = log
                     ELSE /\ pc'[c] = "reply"
                          /\ ~res'[c].err
                          /\ res'[c].val = 0
                          /\ log' = log
             /\ Moved(c, "del_set", "reply") =>
                  /\ ~res'[c].err
                  /\ res'[c].val = 1
                  /\ log' = log
                  /\ encode(req[c].key) \in DOMAIN mem_storage'
                  /\ get(mem_storage', req[c].key) = None
        /\ \A k \in Keys :
             (get(mem_storage, k) = None /\ get(mem_storage', k) # None) =>
                \E c \in DOMAIN pc : pc[c] = "put_insert" /\ req[c].key = k
      ]_vars

\* A delete of a key that was already a tombstone has returned 1 and written
\* a second Delete record.
DeleteSemanticsWitness ==
    \E c \in DOMAIN pc :
        /\ pc[c] = "reply"
        /\ req[c].op = "Del"
        /\ ~res[c].err
        /\ res[c].val = 1
        /\ Len(log) >= 3
        /\ log[Len(log)] = DeleteMsg(req[c].key)
        /\ log[Len(log) - 1] = DeleteMsg(req[c].key)

(***************************************************************************)
(* C4. scan(lo, hi) returns exactly the pairs (k, v) with k holding v and  *)
(* encode(lo) <= encode(k) < encode(hi), each key once, in strictly        *)
(* ascending key order; scan(k, k) is empty.                               *)
(***************************************************************************)
\* The keys of [lo, hi) that hold a value in index m.
Live(m, lo, hi) ==
    { k \in Keys :
        /\ get(m, k) # None
        /\ encode(lo) <= encode(k)
        /\ encode(k) < encode(hi) }

\* r lists the pairs of Live(m, lo, hi), each once, in ascending key order.
IsScanOf(r, m, lo, hi) ==
    /\ Len(r) = Cardinality(Live(m, lo, hi))
    /\ { r[j] : j \in 1..Len(r) } = { <<k, get(m, k)>> : k \in Live(m, lo, hi) }
    /\ \A j \in 1..(Len(r) - 1) : encode(r[j][1]) < encode(r[j + 1][1])

\* A call of scan by connection c ends in this step.
ScanCalled(c) == pc[c] = "scan" /\ pc'[c] \notin {"scan", "read"}

\* C4 as stated, for every lo and hi: every call of scan returns, and returns
\* that list.
ScanCorrect ==
    [][ \A c \in DOMAIN pc :
          ScanCalled(c) =>
            /\ pc'[c] = "scan_reply"
            /\ IsScanOf(scan_result'[c], mem_storage, req[c].key1, req[c].key2)
            /\ req[c].key1 = req[c].key2 => scan_result'[c] = <<>>
      ]_vars

\* What the program does: C4 for the calls with encode(lo) <= encode(hi).
ScanCorrectInRange ==
    [][ \A c \in DOMAIN pc :
          (ScanCalled(c) /\ encode(req[c].key1) <= encode(req[c].key2)) =>
            /\ pc'[c] = "scan_reply"
            /\ IsScanOf(scan_result'[c], mem_storage, req[c].key1, req[c].key2)
            /\ req[c].key1 = req[c].key2 => scan_result'[c] = <<>>
      ]_vars

\* A scan has returned one pair while a key of its range is a tombstone.
ScanCorrectInRangeWitness ==
    \E c \in DOMAIN pc :
        /\ pc[c] = "scan_reply"
        /\ Len(scan_result[c]) = 1
        /\ \E k \in Keys :
              /\ HasEntry(k)
              /\ get(mem_storage, k) = None
              /\ encode(req[c].key1) <= encode(k)
              /\ encode(k) < encode(req[c].key2)

(***************************************************************************)
(* C5. Replay equivalence: whenever no put or delete stands between its    *)
(* append and its change of the index, the index that read_log_file        *)
(* rebuilds from the log answers every get(k) and every scan(lo, hi) as    *)
(* the live index does (failed appends, repeated deletes and deletes of    *)
(* keys without entry included).                                           *)
(***************************************************************************)
ReplayEquivalence ==
    Quiescent =>
        \A rebuilt \in {read_log_file(log)} :
            /\ \A k \in Keys : get(rebuilt, k) = get(mem_storage, k)
            /\ \A lo \in ScanKeys, hi \in ScanKeys :
                  scan(rebuilt, lo, hi) = scan(mem_storage, lo, hi)

\* The live index holds a tombstone, which no replay produces, after a delete
\* of the same key was logged twice.
ReplayEquivalenceWitness ==
    /\ Quiescent
    /\ \E e \in DOMAIN mem_storage : mem_storage[e] = None
    /\ read_log_file(log) # mem_storage
    /\ \E j \in 1..(Len(log) - 1) :
          log[j].type = "Delete" /\ log[j + 1] = log[j]

(***************************************************************************)
(* C6. Empty and absent results are never errors: a Scan whose range holds *)
(* no live key, hi < lo included, is answered by the terminator chunk      *)
(* alone, a Get of a missing key by an absent value, a Del of a key        *)
(* without entry by 0; none of them ends the handler.                      *)
(***************************************************************************)
EmptyResultsAreNotErrors ==
    [][ \A c \in DOMAIN pc :
          /\ (ScanCalled(c) /\ Live(mem_storage, req[c].key1, req[c].key2) = {}) =>
                /\ pc'[c] = "scan_reply"
                /\ scan_result'[c] = <<>>
          /\ (Replied(c, "scan_reply") /\ scan_result[c] = <<>>) =>
                sent'[c] = <<EmptyChunk>>
          /\ (Moved(c, "get", "reply") /\ get(mem_storage, req[c].key) = None) =>
                reply_chunk(req[c], res'[c]) = SingleValue(None)
          /\ (pc[c] = "del" /\ pc'[c] \notin {"del", "read"}
                /\ ~HasEntry(req[c].key)) =>
                /\ pc'[c] = "reply"
                /\ reply_chunk(req[c], res'[c]) = Number(0)
      ]_vars

\* C6 without the scans of hi < lo, which is what the program does.
EmptyResultsInRange ==
    [][ \A c \in DOMAIN pc :
          /\ (ScanCalled(c) /\ Live(mem_storage, req[c].key1, req[c].key2) = {}
                /\ encode(req[c].key1) <= encode(req[c].key2)) =>
                /\ pc'[c] = "scan_reply"
                /\ scan_result'[c] = <<>>
          /\ (Replied(c, "scan_reply") /\ scan_result[c] = <<>>) =>
                sent'[c] = <<EmptyChunk>>
          /\ (Moved(c, "get", "reply") /\ get(mem_storage, req[c].key) = None) =>
                reply_chunk(req[c], res'[c]) = SingleValue(None)
          /\ (pc[c] = "del" /\ pc'[c] \notin {"del", "read"}
                /\ ~HasEntry(req[c].key)) =>
                /\ pc'[c] = "reply"
                /\ reply_chunk(req[c], res'[c]) = Number(0)
      ]_vars

\* The handler of a connection was ended by the panic of a scan.
ScanPanicked == \E c \in DOMAIN pc : pc[c] = "panicked"

(***************************************************************************)
(* C7. Scan pagination: with N the length of the engine's result and       *)
(* P = floor((maxChunkSize - 1) / serializedPairSize), a finished scan     *)
(* reply is ceil(N / P) KVPairs chunks followed by one empty chunk; every  *)
(* KVPairs chunk but the last holds P pairs, the last 1 to P; the chunks   *)
(* joined in the order sent are the engine's result; and while the reply   *)
(* is being written its chunks are KVPairs chunks of P pairs that join to  *)
(* the first idx pairs of the result (no empty chunk before the end).      *)
(***************************************************************************)
PageSize == (CHUNK_MAX_SIZE - 1) \div KV_PAIR_SERIALIZED_SIZE

Ceil(n, d) == (n + d - 1) \div d

RECURSIVE Joined(_, _)
Joined(chunks, n) ==
    IF n = 0 THEN <<>> ELSE Joined(chunks, n - 1) \o chunks[n].pairs

AllPairs(chunks, n) == \A j \in 1..n : chunks[j].tag = "KVPairs"

\* C7: the chunks of a scan reply, finished or under way, page the engine's
\* result by PageSize.
ScanPagination ==
    \A c \in DOMAIN pc :
        req[c].op = "Scan" =>
            LET N == Len(scan_result[c])
                out == sent[c]
                D == Ceil(N, PageSize)
                written == pc[c] = "read" \/ fault[c] \in {"read", "decode"}
                writing == pc[c] = "scan_reply" \/ fault[c] = "write"
            IN  /\ written =>
                    /\ Len(out) = D + 1
                    /\ out[D + 1] = EmptyChunk
                    /\ AllPairs(out, D)
                    /\ \A j \in 1..(D - 1) : Len(out[j].pairs) = PageSize
                    /\ D > 0 => Len(out[D].pairs) \in 1..PageSize
                    /\ Joined(out, D) = scan_result[c]
                /\ writing =>
                    /\ Len(out) <= D
                    /\ AllPairs(out, Len(out))
                    /\ \A j \in 1..Len(out) : Len(out[j].pairs) \in 1..PageSize
                    /\ \A j \in 1..(Len(out) - 1) : Len(out[j].pairs) = PageSize
                    /\ Joined(out, Len(out))
                         = SubSeq(scan_result[c], 1, Len(Joined(out, Len(out))))
                    /\ pc[c] = "scan_reply" => Len(out) * PageSize = idx[c]

\* A scan of three pairs was answered by a chunk of two, a chunk of one and the
\* empty chunk.
ScanPaginationWitness ==
    \E c \in DOMAIN pc :
        /\ pc[c] = "read"
        /\ req[c].op = "Scan"
        /\ Len(scan_result[c]) = 3
        /\ Len(sent[c]) = 3

(***************************************************************************)
(* C8. Recoverable write failures: when the append of a Put or Del request *)
(* fails, the handler does not end: index and log stay as they were, the   *)
(* request is answered by one Error chunk, and once that chunk is written  *)
(* the lock is free and the handler is back at the top of its loop.        *)
(***************************************************************************)
\* The engine call of a Put or Del of connection c ends in this step without
\* having appended a record although the key called for one.
AppendFailed(c) ==
    /\ log' = log
    /\ \/ pc[c] = "put" /\ pc'[c] \notin {"put", "read"}
       \/ /\ pc[c] = "del" /\ pc'[c] \notin {"del", "read"}
          /\ HasEntry(req[c].key)

\* C8: a failed append is answered by Error, changes nothing and leaves the
\* handler in its loop.
RecoverableWriteFailure ==
    [][ \A c \in DOMAIN pc :
          /\ AppendFailed(c) =>
                /\ pc'[c] = "reply"
                /\ res'[c].err
                /\ reply_chunk(req[c], res'[c]) = Error
                /\ mem_storage' = mem_storage
                /\ fault'[c] = "none"
          /\ (Replied(c, "reply") /\ res[c].err) =>
                /\ sent'[c] = <<Error>>
                /\ write_guard' = NoConn
                /\ fault'[c] = "none"
                /\ engine' = engine
      ]_vars

\* A Del whose append failed was answered by Error and the handler is back at
\* the top of its loop.
RecoverableWriteFailureWitness ==
    \E c \in DOMAIN pc :
        /\ pc[c] = "read"
        /\ req[c].op = "Del"
        /\ sent[c] = <<Error>>
        /\ write_guard = NoConn

(***************************************************************************)
(* C9. The type of a reply chunk follows the request.  As stated by the    *)
(* claim: Error only for a Put, a Del always Number(0 or 1), a Get always  *)
(* SingleValue, a Scan only KVPairs chunks and the empty chunk.            *)
(***************************************************************************)
IsCount(chunk) == chunk.tag = "Number" /\ chunk.n \in {0, 1}

ErrorOnlyForPut ==
    \A c \in DOMAIN pc :
        \A j \in 1..Len(sent[c]) :
            LET chunk == sent[c][j]
            IN  CASE req[c].op = "Get" -> chunk.tag = "SingleValue"
                  [] req[c].op = "Put" -> chunk.tag \in {"Success", "Error"}
                  [] req[c].op = "Del" -> IsCount(chunk)
                  [] req[c].op = "Scan" -> chunk.tag \in {"KVPairs", "Empty"}

\* C9 as the program has it: Error answers a Put or a Del, and exactly when
\* the append of its record failed; otherwise a Put is answered by Success and
\* a Del by Number(0 or 1); a Get always by SingleValue, a Scan only by
\* KVPairs chunks and the empty chunk.
ErrorOnlyForFailedAppend ==
    \A c \in DOMAIN pc :
        \A j \in 1..Len(sent[c]) :
            LET chunk == sent[c][j]
            IN  CASE req[c].op = "Get" -> chunk.tag = "SingleValue"
                  [] req[c].op = "Put" ->
                        IF res[c].err THEN chunk = Error ELSE chunk = Success
                  [] req[c].op = "Del" ->
                        IF res[c].err THEN chunk = Error ELSE IsCount(chunk)
                  [] req[c].op = "Scan" -> chunk.tag \in {"KVPairs", "Empty"}

\* A Del was answered by Error.
ErrorForDelWitness ==
    \E c \in DOMAIN pc : req[c].op = "Del" /\ sent[c] = <<Error>>

(***************************************************************************)
(* C10. The request loop: a request is read only at the top of the loop,   *)
(* where the reply of the request before it is complete; the handler has   *)
(* returned Ok exactly when the request read last is Close, for which no   *)
(* chunk is written; it has returned an error exactly when a chunk read,   *)
(* a decode or a chunk write has failed; once it has returned, nothing of  *)
(* the connection changes and no request is read.                          *)
(***************************************************************************)
ReplyComplete(c) ==
    LET out == sent[c]
    IN  CASE req[c].op = "Get" -> Len(out) = 1 /\ out[1].tag = "SingleValue"
          [] req[c].op = "Put" -> Len(out) = 1 /\ out[1].tag \in {"Success", "Error"}
          [] req[c].op = "Del" -> Len(out) = 1 /\ out[1].tag \in {"Number", "Error"}
          [] req[c].op = "Scan" ->
                /\ Len(out) = Ceil(Len(scan_result[c]), PageSize) + 1
                /\ out[Len(out)] = EmptyChunk
          [] OTHER -> FALSE

Returned(c) == pc[c] \in {"closed", "failed"}

LoopInvariant ==
    \A c \in DOMAIN pc :
        /\ (pc[c] = "read" /\ req[c] # NoReq) => ReplyComplete(c)
        /\ pc[c] = "closed" <=> req[c].op = "Close"
        /\ pc[c] = "closed" => sent[c] = <<>>
        /\ pc[c] = "failed" <=> fault[c] # "none"
        /\ pc[c] = "failed" => fault[c] \in {"read", "decode", "write"}

\* C10: the loop invariant above in every state, and in every step: a handler
\* that has returned stays as it is, a request is read only at the top of the
\* loop, and the chunks of a reply are only added to while it is served.
RequestLoop ==
    /\ []LoopInvariant
    /\ [][ \/ RestartStep
           \/ /\ \A c \in DOMAIN pc :
                    /\ Returned(c) =>
                          /\ pc'[c] = pc[c]
                          /\ req'[c] = req[c]
                          /\ sent'[c] = sent[c]
                          /\ res'[c] = res[c]
                    /\ req'[c] # req[c] => pc[c] = "read"
                    /\ (pc[c] # "read" /\ ~Returned(c)) =>
                          /\ req'[c] = req[c]
                          /\ Len(sent'[c]) >= Len(sent[c])
              /\ nreq' # nreq =>
                    \E c \in DOMAIN pc : pc[c] = "read" /\ pc'[c] # "read"
         ]_vars

\* The handler has served a request and then returned on a Close.
RequestLoopWitness ==
    \E c \in DOMAIN pc : pc[c] = "closed" /\ nreq >= 2 /\ log # <<>>

(***************************************************************************)
(* run_server with its thread pool: the accept loop hands every stream to  *)
(* the pool as a job, the workers take the jobs from the channel and run   *)
(* handle_connection, and the pool is dropped when the loop ends.          *)
(***************************************************************************)
\* The connections that clients open, in the order of their arrival.
PoolConns == {1, 2, 3}

\* The server under this load reads at most MaxPoolReqs request chunks.
MaxPoolReqs == 3

\* pc[c] of a connection that is not being handled: not yet accepted, in the
\* channel as a job, or destroyed with its job before any worker took it.
Waiting == {"none", "queued", "dropped"}

\* The process is alive: run_server has neither returned nor panicked, in
\* pool.execute ("panicked") or in the drop of the pool ("drop_panicked").
Running == server.at \notin {"returned", "panicked", "drop_panicked"}

\* The thread of worker w has not ended: it still owns its clone of the
\* Arc of the receiver.
Alive(w) == workers[w].thread \notin {"exited", "dead"}

\* Sender::send returns Err only when the receiver is gone, which it is once
\* every worker thread has ended.
ReceiverAlive == \E w \in Workers : Alive(w)

\* The connections whose jobs are in the channel.
Queued == { queue[j].conn : j \in { i \in 1..Len(queue) : queue[i].msg = "NewJob" } }

PoolStart ==
    /\ PoolInit
    /\ Idle
    /\ mem_storage = EmptyMap
    /\ log = <<>>
    /\ write_guard = NoConn
    /\ pc = [c \in PoolConns |-> "none"]
    /\ req = [c \in PoolConns |-> NoReq]
    /\ res = [c \in PoolConns |-> Ok(None)]
    /\ scan_result = [c \in PoolConns |-> <<>>]
    /\ idx = [c \in PoolConns |-> 0]
    /\ sent = [c \in PoolConns |-> <<>>]
    /\ fault = [c \in PoolConns |-> "none"]
    /\ nreq = 0

\* for stream in tcp_listener.incoming(), the stream being Ok, and
\* pool.execute(..): self.sender.send(Message::NewJob(job)).unwrap()
AcceptStream(c) ==
    /\ server.at = "accept"
    /\ pc[c] = "none"
    /\ \A d \in DOMAIN pc : d < c => pc[d] # "none"
    /\ IF ReceiverAlive
       THEN /\ queue' = Append(queue, NewJob(c))
            /\ pc' = [pc EXCEPT ![c] = "queued"]
            /\ UNCHANGED server
       ELSE /\ server' = [server EXCEPT !.at = "panicked"]
            /\ pc' = [pc EXCEPT ![c] = "dropped"]
            /\ UNCHANGED queue
    /\ UNCHANGED << mem_storage, log, write_guard, req, res, scan_result, idx,
                    sent, fault, nreq, queue_lock, workers, codec, replay_pos >>

\* if let Err(e) = stream { .. break; }: run_server ends and drops the pool.
AcceptError ==
    /\ server.at = "accept"
    /\ server' = [server EXCEPT !.at = "terminate"]
    /\ UNCHANGED << handler, queue, queue_lock, workers, codec, replay_pos >>

\* One iteration of the first loop of drop:
\* self.sender.send(Message::Terminate).unwrap()
SendTerminate ==
    /\ server.at = "terminate"
    /\ IF ReceiverAlive
       THEN /\ queue' = Append(queue, Terminate)
            /\ server' =
                 [server EXCEPT
                    !.terminates = @ + 1,
                    !.at = IF server.terminates + 1 = NumWorkers
                           THEN "join" ELSE "terminate"]
       ELSE /\ server' = [server EXCEPT !.at = "drop_panicked"]
            /\ UNCHANGED queue
    /\ UNCHANGED << handler, queue_lock, workers, codec, replay_pos >>

\* One iteration of the second loop of drop: thread.join().unwrap(), which
\* waits for the thread to end and panics if it ended by a panic.
Join ==
    /\ server.at = "join"
    /\ LET w == server.joined + 1
       IN  \/ /\ workers[w].thread = "exited"
              /\ server' =
                   [server EXCEPT
                      !.joined = @ + 1,
                      !.at = IF w = NumWorkers THEN "returned" ELSE "join"]
           \/ /\ workers[w].thread = "dead"
              /\ server' = [server EXCEPT !.at = "drop_panicked"]
    /\ UNCHANGED << handler, queue, queue_lock, workers, codec, replay_pos >>

\* pc after the receiver is dropped with the messages of q still in it: their
\* jobs, and the streams they own, are destroyed without having run.
discarded(q) ==
    [c \in DOMAIN pc |->
        IF \E j \in 1..Len(q) : q[j] = NewJob(c) THEN "dropped" ELSE pc[c]]

\* receiver.lock().unwrap(): the worker takes the Mutex of the receiver.
WorkerLock(w) ==
    /\ Running
    /\ workers[w].thread = "idle"
    /\ queue_lock = NoWorker
    /\ queue_lock' = w
    /\ workers' = [workers EXCEPT ![w].thread = "recv"]
    /\ UNCHANGED << handler, server, queue, codec, replay_pos >>

\* .recv().unwrap() under the Mutex, which is released at the end of the let
\* statement, and the match on the message: a job is called, Terminate breaks
\* the loop and ends the thread.
WorkerRecv(w) ==
    /\ Running
    /\ workers[w].thread = "recv"
    /\ queue # <<>>
    /\ queue_lock' = NoWorker
    /\ IF Head(queue).msg = "NewJob"
       THEN /\ workers' = [workers EXCEPT
                             ![w] = [thread |-> "run", job |-> Head(queue).conn]]
            /\ pc' = [pc EXCEPT ![Head(queue).conn] = "read"]
            /\ queue' = Tail(queue)
       ELSE /\ workers' = [workers EXCEPT ![w].thread = "exited"]
            /\ IF \E v \in Workers \ {w} : Alive(v)
               THEN queue' = Tail(queue) /\ UNCHANGED pc
               ELSE queue' = <<>> /\ pc' = discarded(Tail(queue))
    /\ UNCHANGED << mem_storage, log, write_guard, req, res, scan_result, idx,
                    sent, fault, nreq, server, codec, replay_pos >>

\* job.call_box() returns: handle_connection returned Ok or Err (which the
\* closure logs), and the worker goes round its loop.
WorkerReturn(w) ==
    /\ Running
    /\ workers[w].thread = "run"
    /\ pc[workers[w].job] \in {"closed", "failed"}
    /\ workers' = [workers EXCEPT ![w] = [thread |-> "idle", job |-> NoConn]]
    /\ UNCHANGED << handler, server, queue, queue_lock, codec, replay_pos >>

\* job.call_box() panics: nothing in the worker catches the unwinding, which
\* ends the thread; the last thread to end drops the receiver.
WorkerPanic(w) ==
    /\ Running
    /\ workers[w].thread = "run"
    /\ pc[workers[w].job] = "panicked"
    /\ workers' = [workers EXCEPT ![w].thread = "dead"]
    /\ IF \E v \in Workers \ {w} : Alive(v)
       THEN UNCHANGED << queue, pc >>
       ELSE queue' = <<>> /\ pc' = discarded(queue)
    /\ UNCHANGED << mem_storage, log, write_guard, req, res, scan_result, idx,
                    sent, fault, nreq, server, queue_lock, codec, replay_pos >>

\* What the clients of this load send: requests about one key, a scan that
\* contains it, a scan whose bounds are the other way round, and Close.
PoolRequests ==
    LET k == <<0, 0, 0, 0, 0, 0, 1, 0>>
        lo == <<0, 0, 0, 0, 0, 0, 0, 2>>
        hi == <<0, 0, 0, 0, 0, 0, 1, 1>>
    IN  { [op |-> "Get", key |-> k],
          [op |-> "Put", key |-> k, value |-> "v1"],
          [op |-> "Del", key |-> k],
          [op |-> "Scan", key1 |-> lo, key2 |-> hi],
          [op |-> "Scan", key1 |-> hi, key2 |-> lo],
          [op |-> "Close"] }

\* A step of a handler that a worker runs, while the process lives.
Serving(c) ==
    /\ Running
    /\ req'[c] \in PoolRequests \cup {NoReq}
    /\ UNCHANGED << pool, codec, replay_pos >>

PoolNext ==
    \/ \E c \in DOMAIN pc : AcceptStream(c)
    \/ AcceptError
    \/ SendTerminate
    \/ Join
    \/ \E w \in Workers : WorkerLock(w)
    \/ \E w \in Workers : WorkerRecv(w)
    \/ \E w \in Workers : WorkerReturn(w)
    \/ \E w \in Workers : WorkerPanic(w)
    \/ \E c \in DOMAIN pc : ReadChunk(c) /\ nreq < MaxPoolReqs /\ Serving(c)
    \/ \E c \in DOMAIN pc : Get(c) /\ Serving(c)
    \/ \E c \in DOMAIN pc : PutAppend(c) /\ Serving(c)
    \/ \E c \in DOMAIN pc : PutInsert(c) /\ Serving(c)
    \/ \E c \in DOMAIN pc : DeleteAppend(c) /\ Serving(c)
    \/ \E c \in DOMAIN pc : DeleteSet(c) /\ Serving(c)
    \/ \E c \in DOMAIN pc : WriteReply(c) /\ Serving(c)
    \/ \E c \in DOMAIN pc : Scan(c) /\ Serving(c)
    \/ \E c \in DOMAIN pc : ScanWritePage(c) /\ Serving(c)
    \/ \E c \in DOMAIN pc : ScanWriteEnd(c) /\ Serving(c)

PoolSpec == PoolStart /\ [][PoolNext]_vars

(***************************************************************************)
(* C11. Connection faults are isolated: whatever a connection sends, its   *)
(* failure ends that connection only, the worker that ran it stays alive   *)
(* and takes the next job, so that the live workers are always NumWorkers  *)
(* and no other connection is lost.                                        *)
(***************************************************************************)
\* The workers whose thread was not ended by a panic.
LiveWorkers == { w \in Workers : workers[w].thread # "dead" }

\* C11 as stated: no worker thread is ever lost to the failure of a
\* connection, and no other connection is destroyed unserved.
FaultIsolation ==
    /\ Cardinality(LiveWorkers) = NumWorkers
    /\ \A c \in DOMAIN pc : pc[c] # "dropped"

\* What the program does: C11 for the failures that handle_connection returns
\* as errors.  A worker is lost only to the panic of the job it ran, and a
\* handler that returned an error, or Ok, leaves its worker alive.
FaultIsolationOfErrors ==
    /\ \A w \in Workers :
          workers[w].thread = "dead" => pc[workers[w].job] = "panicked"
    /\ (\A c \in DOMAIN pc : pc[c] # "panicked") =>
          /\ Cardinality(LiveWorkers) = NumWorkers
          /\ \A c \in DOMAIN pc : pc[c] # "dropped"

\* A worker has taken a second job after the handler of its first one failed
\* on a read, a decode or a write.
FaultIsolationOfErrorsWitness ==
    \E w \in Workers :
        /\ workers[w].thread = "run"
        /\ \E c \in DOMAIN pc : c # workers[w].job /\ pc[c] = "failed"
        /\ \A v \in Workers \ {w} : workers[v].thread # "run"
        /\ \A c \in DOMAIN pc : pc[c] # "closed"

\* Every worker of the pool has been lost to a scan with key1 > key2 and a
\* connection accepted before that was destroyed unserved.
WorkersLost ==
    /\ LiveWorkers = {}
    /\ \E c \in DOMAIN pc : pc[c] = "dropped"

(***************************************************************************)
(* Two connections served at the same time, each by its own worker: the    *)
(* steps of their handlers interleave in every way the lock allows.        *)
(***************************************************************************)
ConcConns == {1, 2}

\* The two connections together send at most MaxConcReqs request chunks.
MaxConcReqs == 3

ConcInit ==
    /\ PoolInit
    /\ Idle
    /\ mem_storage = EmptyMap
    /\ log = <<>>
    /\ write_guard = NoConn
    /\ pc = [c \in ConcConns |-> "read"]
    /\ req = [c \in ConcConns |-> NoReq]
    /\ res = [c \in ConcConns |-> Ok(None)]
    /\ scan_result = [c \in ConcConns |-> <<>>]
    /\ idx = [c \in ConcConns |-> 0]
    /\ sent = [c \in ConcConns |-> <<>>]
    /\ fault = [c \in ConcConns |-> "none"]
    /\ nreq = 0

\* The rest of the state stays as it is in a step of a handler.
Alone == UNCHANGED << pool, codec, replay_pos >>

ConcNext ==
    \/ \E c \in DOMAIN pc : ReadChunk(c) /\ nreq < MaxConcReqs /\ Alone
    \/ \E c \in DOMAIN pc : Get(c) /\ Alone
    \/ \E c \in DOMAIN pc : PutAppend(c) /\ Alone
    \/ \E c \in DOMAIN pc : PutInsert(c) /\ Alone
    \/ \E c \in DOMAIN pc : DeleteAppend(c) /\ Alone
    \/ \E c \in DOMAIN pc : DeleteSet(c) /\ Alone
    \/ \E c \in DOMAIN pc : WriteReply(c) /\ Alone
    \/ \E c \in DOMAIN pc : Scan(c) /\ Alone
    \/ \E c \in DOMAIN pc : ScanWritePage(c) /\ Alone
    \/ \E c \in DOMAIN pc : ScanWriteEnd(c) /\ Alone

ConcSpec == ConcInit /\ [][ConcNext]_vars

(***************************************************************************)
(* C12. WAL order equals visibility order: the log grows only at its end,  *)
(* one record per step; a record is appended only when every record before *)
(* it has taken effect in the index, and the next change of the index is   *)
(* the effect of that record.  So the records are in the order in which    *)
(* the mutations took effect, and a put whose append failed, or a delete   *)
(* of a key without entry, has no record.                                  *)
(***************************************************************************)
\* The mutation of connection c has appended its record and not yet changed
\* the index.
Pending(c) == pc[c] \in {"put_insert", "del_set"}

\* The record of the mutation that connection c asks for.
record(c) ==
    IF req[c].op = "Put"
    THEN PutMsg(req[c].key, req[c].value)
    ELSE DeleteMsg(req[c].key)

\* What put and delete do to the index once their record is written.
effect(m, log_msg) ==
    IF log_msg.type = "Put"
    THEN insert(m, encode(log_msg.key), log_msg.value)
    ELSE set_none(m, encode(log_msg.key))

\* The index made by the effects of the first n records, in their order.
RECURSIVE Effects(_, _)
Effects(records, n) ==
    IF n = 0 THEN EmptyMap ELSE effect(Effects(records, n - 1), records[n])

\* The number of records of the log that have taken effect.
Applied == IF \E c \in DOMAIN pc : Pending(c) THEN Len(log) - 1 ELSE Len(log)

WalOrderInvariant ==
    /\ \A c, d \in DOMAIN pc : (Pending(c) /\ Pending(d)) => c = d
    /\ \A c \in DOMAIN pc :
          Pending(c) => (write_guard = c /\ log[Len(log)] = record(c))
    /\ mem_storage = Effects(log, Applied)

\* C12: the log and the index change in step, under the exclusive lock.
WalOrder ==
    /\ []WalOrderInvariant
    /\ [][ /\ log' # log =>
                \E c \in DOMAIN pc :
                    /\ \A d \in DOMAIN pc : ~Pending(d)
                    /\ pc[c] \in {"put", "del"}
                    /\ pc'[c] \in {"put_insert", "del_set"}
                    /\ log' = Append(log, record(c))
                    /\ mem_storage' = mem_storage
           /\ mem_storage' # mem_storage =>
                \E c \in DOMAIN pc : Pending(c) /\ pc'[c] = "reply"
           /\ \A c \in DOMAIN pc :
                /\ (Pending(c) /\ pc'[c] # pc[c]) =>
                      /\ pc'[c] = "reply"
                      /\ ~res'[c].err
                      /\ log' = log
                      /\ mem_storage' = effect(mem_storage, log[Len(log)])
                /\ (pc[c] \in {"put", "del"} /\ pc'[c] = "reply") =>
                      /\ log' = log
                      /\ mem_storage' = mem_storage
                      /\ res'[c].err \/ ~HasEntry(req[c].key)
         ]_vars

\* A mutation stands between its append and its change of the index while
\* the other connection waits with a mutation of its own, after an earlier
\* record has taken effect.
WalOrderWitness ==
    \E c, d \in DOMAIN pc :
        /\ c # d
        /\ Pending(c)
        /\ pc[d] \in {"put", "del"}
        /\ Len(log) = 2

(***************************************************************************)
(* C13. Readers see no partial and no unlogged state: a get or a scan runs *)
(* only when no mutation stands between its append and its change of the   *)
(* index; every value it returns for a key k is the value of a Put record  *)
(* of k that is in the log at that moment; and what it returned is what    *)
(* is sent, whatever is put to k before the reply is written.              *)
(***************************************************************************)
\* C13: the reads of get and scan, and the replies built from them.
ReadersSeeLoggedValues ==
    [][ \A c \in DOMAIN pc :
          /\ Moved(c, "get", "reply") =>
                /\ \A d \in DOMAIN pc : ~Pending(d)
                /\ write_guard = NoConn
                /\ res'[c].val # None =>
                      /\ res'[c].val \in Values
                      /\ Logged(req[c].key, res'[c].val)
          /\ Moved(c, "scan", "scan_reply") =>
                /\ \A d \in DOMAIN pc : ~Pending(d)
                /\ write_guard = NoConn
                /\ \A j \in 1..Len(scan_result'[c]) :
                      /\ scan_result'[c][j][2] \in Values
                      /\ Logged(scan_result'[c][j][1], scan_result'[c][j][2])
          /\ (pc[c] = "reply" /\ req[c].op = "Get") =>
                /\ res'[c] = res[c]
                /\ sent'[c] # sent[c] => sent'[c] = <<SingleValue(res[c].val)>>
          /\ pc[c] = "scan_reply" =>
                /\ scan_result'[c] = scan_result[c]
                /\ (sent'[c] # sent[c] /\ idx[c] < Len(scan_result[c])) =>
                      sent'[c] = Append(sent[c],
                                        KVPairs(page(scan_result[c], idx[c])))
      ]_vars

\* A get has returned the old value of a key to which the other connection
\* has put another value since; the reply is not yet written.
ReadersSeeLoggedValuesWitness ==
    \E c \in DOMAIN pc :
        /\ pc[c] = "reply"
        /\ req[c].op = "Get"
        /\ res[c].val \in Values
        /\ get(mem_storage, req[c].key) \in Values \ {res[c].val}

(***************************************************************************)
(* N connections that have each read one Put, to N distinct keys, and are  *)
(* about to call put; the threads of their workers are scheduled fairly.   *)
(***************************************************************************)
PutConns == {1, 2}

\* The requests of the connections: Puts whose keys differ from one another.
PutLoads ==
    { load \in [PutConns -> [op : {"Put"}, key : Keys, value : Values]] :
        \A c, d \in PutConns : c # d => load[c].key # load[d].key }

PutsInit ==
    /\ PoolInit
    /\ Idle
    /\ mem_storage = EmptyMap
    /\ log = <<>>
    /\ write_guard = NoConn
    /\ pc = [c \in PutConns |-> "put"]
    /\ req \in PutLoads
    /\ res = [c \in PutConns |-> Ok(None)]
    /\ scan_result = [c \in PutConns |-> <<>>]
    /\ idx = [c \in PutConns |-> 0]
    /\ sent = [c \in PutConns |-> <<>>]
    /\ fault = [c \in PutConns |-> "none"]
    /\ nreq = Cardinality(PutConns)

PutsNext ==
    \/ \E c \in DOMAIN pc : PutAppend(c) /\ Alone
    \/ \E c \in DOMAIN pc : PutInsert(c) /\ Alone
    \/ \E c \in DOMAIN pc : WriteReply(c) /\ Alone

\* A thread that can take a step, and goes on being able to, takes it: a
\* handler that waits for the lock gets it once it stays free, and a handler
\* that holds it goes on to its reply.
PutsFairness ==
    \A c \in PutConns :
        /\ WF_vars(PutAppend(c) /\ Alone)
        /\ WF_vars(PutInsert(c) /\ Alone)
        /\ WF_vars(WriteReply(c) /\ Alone)

FairPutsSpec == PutsInit /\ [][PutsNext]_vars /\ PutsFairness

(***************************************************************************)
(* C14. Concurrent puts make progress: unless an append fails, every one   *)
(* of the N puts gets the lock and returns Ok, after which its Success is  *)
(* written (or the write of the reply fails), the lock is free, and get    *)
(* returns for each of the N keys the value put to it.                     *)
(***************************************************************************)
\* put of connection c has returned Ok and its reply is behind it.
PutDone(c) ==
    /\ pc[c] \in {"read", "failed"}
    /\ ~res[c].err
    /\ pc[c] = "read" => sent[c] = <<Success>>
    /\ get(mem_storage, req[c].key) = req[c].value

AllPutsDone == write_guard = NoConn /\ \A c \in DOMAIN pc : PutDone(c)

SomeAppendFailed == \E c \in DOMAIN pc : res[c].err

\* C14: with appends that succeed, all puts are done in the end, for good.
PutsProgress == <>[](SomeAppendFailed \/ AllPutsDone)

\* All N puts are done, each answered by Success, and their N records are in
\* the log.
PutsProgressWitness ==
    /\ AllPutsDone
    /\ Len(log) = Cardinality(PutConns)
    /\ \A c \in DOMAIN pc : pc[c] = "read"

(***************************************************************************)
(* C15. One job per accepted connection, run once by one worker: every     *)
(* accepted connection is in the channel as one NewJob message until one   *)
(* worker takes it, and that worker alone runs its handler to the end; no  *)
(* job is destroyed without having run; the workers that run a job are at  *)
(* most NumWorkers, and none of them holds the Mutex of the receiver.      *)
(***************************************************************************)
\* The number of NewJob messages of connection c in the channel.
Copies(c) == Cardinality({ j \in 1..Len(queue) : queue[j] = NewJob(c) })

\* The workers that run the handler of connection c.
Runners(c) ==
    { w \in Workers : workers[w].thread = "run" /\ workers[w].job = c }

\* The handler of connection c has started and has not ended.
Handled(c) == pc[c] \notin Waiting \cup {"closed", "failed", "panicked"}

\* One message while queued, one worker while handled, never both.
JobStructure ==
    /\ \A c \in DOMAIN pc :
          /\ Copies(c) = IF pc[c] = "queued" THEN 1 ELSE 0
          /\ Handled(c) => Cardinality(Runners(c)) = 1
          /\ pc[c] \in Waiting => Runners(c) = {}
          /\ Cardinality(Runners(c)) <= 1
    /\ Cardinality({ w \in Workers : workers[w].thread = "run" }) <= NumWorkers
    /\ \A w \in Workers : workers[w].thread = "run" => queue_lock # w

\* C15 as stated: the structure above, and every connection that was
\* accepted becomes a job that is run.
OneJobOneWorker ==
    /\ JobStructure
    /\ \A c \in DOMAIN pc : pc[c] # "dropped"

\* What the program does: the structure always; no job is destroyed unless
\* the handler of some connection has panicked.
OneJobOneWorkerUnlessPanic ==
    /\ JobStructure
    /\ (\E c \in DOMAIN pc : pc[c] = "dropped") =>
          \E d \in DOMAIN pc : pc[d] = "panicked"

\* Both workers run a job, neither holding the Mutex, and a third job waits
\* in the channel.
OneJobOneWorkerWitness ==
    /\ \A w \in Workers : workers[w].thread = "run"
    /\ queue_lock = NoWorker
    /\ \E c \in DOMAIN pc : pc[c] = "queued"

(***************************************************************************)
(* C16. The drop of the pool drains and terminates: a worker exits only on *)
(* a Terminate, which it takes after every job sent before the drop has    *)
(* been taken, and only after the job it ran has ended; each worker takes  *)
(* exactly one Terminate; the drop joins every worker and returns, and     *)
(* when it returns every job sent has run to its end.                      *)
(***************************************************************************)
Exited == { w \in Workers : workers[w].thread = "exited" }

\* The Terminate messages in the channel.
TerminatesQueued ==
    Cardinality({ j \in 1..Len(queue) : queue[j] = Terminate })

\* The connection has been handled to its end, by Close or by an error.
Ended(c) == pc[c] \in {"closed", "failed"}

Draining ==
    /\ \A w \in Workers :
          workers[w].thread = "exited" =>
             /\ server.at # "accept"
             /\ workers[w].job = NoConn
             /\ Queued = {}
    /\ Cardinality(Exited) + TerminatesQueued = server.terminates
    /\ server.joined <= Cardinality(Exited)
    /\ server.at = "returned" =>
          /\ Exited = Workers
          /\ queue = <<>>
          /\ \A c \in DOMAIN pc : pc[c] = "none" \/ Ended(c)

\* C16 as stated: the drop drains, and it does not end in a panic.
ShutdownDrains ==
    /\ Draining
    /\ server.at # "drop_panicked"

\* What the program does: C16 for a pool none of whose jobs has panicked.
ShutdownDrainsUnlessPanic ==
    (\A c \in DOMAIN pc : pc[c] # "panicked") =>
        /\ Draining
        /\ server.at # "drop_panicked"

\* The drop has returned after a job that was still in the channel when the
\* accept loop ended was run to its end.
ShutdownDrainsWitness ==
    /\ server.at = "returned"
    /\ \E c, d \in DOMAIN pc : c # d /\ Ended(c) /\ Ended(d)
    /\ log # <<>>

\* The drop has panicked in join().unwrap() while a connection was handled.
DropPanicked ==
    /\ server.at = "drop_panicked"
    /\ server.terminates = NumWorkers
    /\ \E c \in DOMAIN pc : Handled(c)

(***************************************************************************)
(* C17. Fail-fast accept loop: once the accept loop has ended on an error  *)
(* no connection is accepted and no job is sent to the pool; the           *)
(* connections accepted before are handled until they close or fail, that  *)
(* is, the process does not end while one of them waits in the channel or  *)
(* is being handled.                                                       *)
(***************************************************************************)
\* The accept loop has ended on an error.
LoopEnded == server.at \in {"terminate", "join", "returned", "drop_panicked"}

\* No connection is accepted, no job is sent, and the loop stays ended.
NothingAccepted ==
    /\ LoopEnded'
    /\ \A c \in DOMAIN pc : pc[c] = "none" => pc'[c] = "none"
    /\ \A j \in 1..Len(queue') : queue'[j].msg = "NewJob" => queue'[j] \in
          { queue[i] : i \in 1..Len(queue) }

\* The process has not ended under a connection it had accepted.
AcceptedAreServed ==
    (LoopEnded /\ ~Running) =>
        \A c \in DOMAIN pc : pc[c] \in {"none", "closed", "failed", "panicked"}

\* C17 as stated.
FailFastAccept ==
    /\ []AcceptedAreServed
    /\ [][LoopEnded => NothingAccepted]_vars

\* What the program does: C17 for a pool none of whose jobs has panicked.
FailFastAcceptUnlessPanic ==
    /\ []((\A c \in DOMAIN pc : pc[c] # "panicked") => AcceptedAreServed)
    /\ [][LoopEnded => NothingAccepted]_vars

\* After the accept loop has ended with a connection not yet accepted, a
\* worker takes a job that was in the channel.
FailFastAcceptWitness ==
    /\ server.at \in {"terminate", "join"}
    /\ \E c \in DOMAIN pc : pc[c] = "none"
    /\ \E w \in Workers : workers[w].thread = "run" /\ pc[workers[w].job] = "read"
    /\ \E w \in Workers : workers[w].thread = "exited"

\* The process has ended in the drop of the pool under a connection that a
\* worker was handling.
ServedConnectionCut ==
    /\ LoopEnded
    /\ ~Running
    /\ \E c \in DOMAIN pc : Handled(c) /\ Runners(c) # {}

(***************************************************************************)
(* Key::encode and Key::decode at their full width.  The model checker's   *)
(* integers are narrower than u64, so a u64 is held here as its four       *)
(* 16-bit digits, the most significant first; for the keys of the handlers *)
(* above, whose upper bytes are 0, the two lower digits are the number     *)
(* that encode gives.  The code reads the 8 bytes of the key as one u64    *)
(* of the target and converts it with u64::from_be; both kinds of target   *)
(* are modelled.                                                           *)
(***************************************************************************)
Targets == {"little", "big"}

\* *(ptr as *const u64): the u64 that the target sees in 8 bytes of memory.
native_read(bytes, target) ==
    IF target = "little"
    THEN << bytes[8] * 256 + bytes[7], bytes[6] * 256 + bytes[5],
            bytes[4] * 256 + bytes[3], bytes[2] * 256 + bytes[1] >>
    ELSE << bytes[1] * 256 + bytes[2], bytes[3] * 256 + bytes[4],
            bytes[5] * 256 + bytes[6], bytes[7] * 256 + bytes[8] >>

\* *(&x as *const u64 as *const [u8; 8]): the 8 bytes of a u64 in the memory
\* of the target.
native_bytes(x, target) ==
    IF target = "little"
    THEN << x[4] % 256, x[4] \div 256, x[3] % 256, x[3] \div 256,
            x[2] % 256, x[2] \div 256, x[1] % 256, x[1] \div 256 >>
    ELSE << x[1] \div 256, x[1] % 256, x[2] \div 256, x[2] % 256,
            x[3] \div 256, x[3] % 256, x[4] \div 256, x[4] % 256 >>

\* u64::swap_bytes
swap_bytes(x) ==
    << (x[4] % 256) * 256 + x[4] \div 256, (x[3] % 256) * 256 + x[3] \div 256,
       (x[2] % 256) * 256 + x[2] \div 256, (x[1] % 256) * 256 + x[1] \div 256 >>

\* u64::from_be: swaps the bytes on a little-endian target, nothing on a
\* big-endian one.
from_be(x, target) == IF target = "little" THEN swap_bytes(x) ELSE x

\* u64::to_be
to_be(x, target) == IF target = "little" THEN swap_bytes(x) ELSE x

\* Key::encode / Key::encode_raw, when the read returns.
encode_u64(bytes, target) == from_be(native_read(bytes, target), target)

\* Key::decode
decode_u64(x, target) == native_bytes(to_be(x, target), target)

\* a < b for two u64.
less_u64(a, b) ==
    \E i \in 1..4 : a[i] < b[i] /\ \A j \in 1..(i - 1) : a[j] = b[j]

\* The keys encoded: the keys of the handlers, the two keys of the tests of
\* the module, and keys that differ in their first, middle and last bytes,
\* with bytes on both sides of the sign bit.
WideKeys ==
    Keys \cup
    { <<64, 73, 15, 208, 202, 254, 186, 190>>,
      <<0, 0, 0, 0, 0, 60, 154, 14>>,
      <<0, 0, 0, 0, 0, 0, 0, 0>>,
      <<255, 255, 255, 255, 255, 255, 255, 255>>,
      <<1, 0, 0, 0, 0, 0, 0, 0>>,
      <<0, 0, 0, 0, 0, 0, 0, 1>>,
      <<127, 255, 255, 255, 255, 255, 255, 255>>,
      <<128, 0, 0, 0, 0, 0, 0, 0>>,
      <<0, 0, 0, 1, 255, 0, 0, 0>>,
      <<0, 0, 0, 2, 0, 0, 0, 0>>,
      <<0, 255, 0, 0, 0, 0, 0, 0>> }

\* The u64 decoded: digits at and next to the ends of their range.
Words == [1..4 -> {0, 1, 255, 256, 65535}]

\* The calls checked: encode of two keys A and B and decode of encode(A), or
\* decode of a u64 n and encode of the key it gives.  The bytes of a Key are
\* a [u8; 8], of alignment 1: they may lie at an address that is no multiple
\* of 8.
KeyCalls ==
    [at : {"call"}, kind : {"key"}, target : Targets, misaligned : BOOLEAN,
     A : WideKeys, B : WideKeys, eA : {<<>>}, eB : {<<>>}, dA : {<<>>}]

WordCalls ==
    [at : {"call"}, kind : {"word"}, target : Targets, misaligned : BOOLEAN,
     n : Words, dn : {<<>>}, en : {<<>>}]

CodecInit ==
    /\ PoolInit
    /\ replay_pos = 0
    /\ codec \in KeyCalls \cup WordCalls
    /\ mem_storage = EmptyMap
    /\ log = <<>>
    /\ write_guard = NoConn
    /\ pc = [c \in Conns |-> "read"]
    /\ req = [c \in Conns |-> NoReq]
    /\ res = [c \in Conns |-> Ok(None)]
    /\ scan_result = [c \in Conns |-> <<>>]
    /\ idx = [c \in Conns |-> 0]
    /\ sent = [c \in Conns |-> <<>>]
    /\ fault = [c \in Conns |-> "none"]
    /\ nreq = 0

\* Key::encode: unsafe { u64::from_be(*flat) } with flat the address of the
\* bytes cast to *const u64.  The read through flat is defined only when the
\* address is a multiple of 8; when it is not, the build either reads the 8
\* bytes all the same or traps (an alignment check of the compiler, a target
\* without unaligned loads).
KeyEncode ==
    /\ \/ codec.kind = "key" /\ codec.at = "call"
       \/ codec.kind = "word" /\ codec.at = "decoded"
    /\ \/ /\ codec.kind = "key"
          /\ codec' = [codec EXCEPT
                         !.at = "encoded",
                         !.eA = encode_u64(codec.A, codec.target),
                         !.eB = encode_u64(codec.B, codec.target)]
       \/ /\ codec.kind = "word"
          /\ codec' = [codec EXCEPT
                         !.at = "encoded",
                         !.en = encode_u64(codec.dn, codec.target)]
       \/ /\ codec.misaligned
          /\ codec' = [codec EXCEPT !.at = "trapped"]
    /\ UNCHANGED << handler, pool, replay_pos >>

\* Key::decode: the bytes of u64::to_be(encoded), copied by Key::from_slice.
KeyDecode ==
    /\ \/ /\ codec.kind = "key" /\ codec.at = "encoded"
          /\ codec' = [codec EXCEPT
                         !.at = "decoded",
                         !.dA = decode_u64(codec.eA, codec.target)]
       \/ /\ codec.kind = "word" /\ codec.at = "call"
          /\ codec' = [codec EXCEPT
                         !.at = "decoded",
                         !.dn = decode_u64(codec.n, codec.target)]
    /\ UNCHANGED << handler, pool, replay_pos >>

CodecNext == KeyEncode \/ KeyDecode

CodecSpec == CodecInit /\ [][CodecNext]_vars

(***************************************************************************)
(* C18. Key encoding preserves order and round-trips: encode returns for   *)
(* every key the u64 whose big-endian bytes are the key; A is before B in  *)
(* the order of the byte arrays iff encode(A) < encode(B) as u64;          *)
(* decode(encode(A)) = A and encode(decode(n)) = n.                        *)
(***************************************************************************)
\* A < B for two byte arrays of the same length, lexicographically.
lex_less(A, B) ==
    \E i \in 1..Len(A) : A[i] < B[i] /\ \A j \in 1..(i - 1) : A[j] = B[j]

\* The u64 whose bytes, the most significant first, are those of the key.
big_endian(bytes) ==
    << bytes[1] * 256 + bytes[2], bytes[3] * 256 + bytes[4],
       bytes[5] * 256 + bytes[6], bytes[7] * 256 + bytes[8] >>

\* What the calls that have returned have returned.
CodecResults ==
    /\ (codec.at \in {"encoded", "decoded"} /\ codec.kind = "key") =>
          /\ codec.eA = big_endian(codec.A)
          /\ codec.eB = big_endian(codec.B)
          /\ lex_less(codec.A, codec.B) <=> less_u64(codec.eA, codec.eB)
          /\ codec.A = codec.B <=> codec.eA = codec.eB
          /\ codec.A \in Keys => codec.eA[3] * 65536 + codec.eA[4] = encode(codec.A)
          /\ codec.A \in Keys => decode(encode(codec.A)) = codec.A
    /\ (codec.at = "decoded" /\ codec.kind = "key") => codec.dA = codec.A
    /\ (codec.at = "encoded" /\ codec.kind = "word") => codec.en = codec.n

\* C18 as stated, for every key wherever it lies in memory: every call of
\* encode returns, and the results are as above.
KeyCodec == codec.at # "trapped" /\ CodecResults

\* What the program does: C18 for the calls of encode that return.
KeyCodecWhenReturned == CodecResults

\* Two keys that differ in the sign bit of the first byte were encoded in the
\* order of their bytes on a little-endian target, and the first decoded.
KeyCodecWhenReturnedWitness ==
    /\ codec.at = "decoded"
    /\ codec.kind = "key"
    /\ codec.target = "little"
    /\ codec.A[1] = 127
    /\ codec.B[1] = 128
    /\ less_u64(codec.eA, codec.eB)

\* A call of encode on a key at an odd address has trapped.
KeyEncodeTrapped == codec.at = "trapped" /\ codec.misaligned

(***************************************************************************)
(* KVStorage::read_log_file on any log file: the loop reads the records    *)
(* one by one into the map it returns.                                     *)
(***************************************************************************)
Records ==
    { PutMsg(k, v) : k \in Keys, v \in Values } \cup { DeleteMsg(k) : k \in Keys }

\* The log files of at most MaxLog records.
LogFiles == UNION { [1..n -> Records] : n \in 0..MaxLog }

ReplayInit ==
    /\ PoolInit
    /\ codec = NoCall
    /\ replay_pos = 0
    /\ log \in LogFiles
    /\ mem_storage = EmptyMap
    /\ write_guard = NoConn
    /\ pc = [c \in Conns |-> "read"]
    /\ req = [c \in Conns |-> NoReq]
    /\ res = [c \in Conns |-> Ok(None)]
    /\ scan_result = [c \in Conns |-> <<>>]
    /\ idx = [c \in Conns |-> 0]
    /\ sent = [c \in Conns |-> <<>>]
    /\ fault = [c \in Conns |-> "none"]
    /\ nreq = 0

\* One iteration of while let Some(log_msg) = log_reader.next_log()?
ReadLogMsg ==
    /\ replay_pos < Len(log)
    /\ mem_storage' = apply_log_msg(mem_storage, log[replay_pos + 1])
    /\ replay_pos' = replay_pos + 1
    /\ UNCHANGED << log, write_guard, pc, req, res, scan_result, idx, sent,
                    fault, nreq, pool, codec >>

ReplayNext == ReadLogMsg

ReplaySpec == ReplayInit /\ [][ReplayNext]_vars

(***************************************************************************)
(* C19. Replay never produces a tombstone: the map that read_log_file      *)
(* builds has an entry for k iff the last record of k read is a Put, and   *)
(* the entry holds the value of that Put; a Delete removes the entry, and  *)
(* a Delete of a key without entry changes nothing.                        *)
(***************************************************************************)
\* The position of the last record of key k among the first n, or 0.
LastOf(k, n) ==
    LET S == { j \in 1..n : log[j].key = k }
    IN  IF S = {} THEN 0 ELSE CHOOSE j \in S : \A i \in S : i <= j

ReplayedPrefix ==
    /\ \A e \in DOMAIN mem_storage :
          mem_storage[e] # None /\ \E k \in Keys : e = encode(k)
    /\ \A k \in Keys :
          LET last == LastOf(k, replay_pos)
          IN  IF last # 0 /\ log[last].type = "Put"
              THEN HasEntry(k) /\ get(mem_storage, k) = log[last].value
              ELSE ~HasEntry(k)
    /\ replay_pos = Len(log) => mem_storage = read_log_file(log)

\* C19: the map after every record read, and what a Delete record does.
ReplayNoTombstone ==
    /\ []ReplayedPrefix
    /\ [][ (replay_pos' = replay_pos + 1 /\ log[replay_pos'].type = "Delete") =>
              /\ encode(log[replay_pos'].key) \notin DOMAIN mem_storage'
              /\ ~HasEntry(log[replay_pos'].key) => mem_storage' = mem_storage
              /\ \A k \in Keys \ {log[replay_pos'].key} :
                    get(mem_storage', k) = get(mem_storage, k)
         ]_vars

\* The whole of a log was read in which a key is put, deleted twice and the
\* key has no entry.
ReplayNoTombstoneWitness ==
    /\ replay_pos = Len(log)
    /\ Len(log) = 3
    /\ log[1].type = "Put"
    /\ log[2] = DeleteMsg(log[1].key)
    /\ log[3] = log[2]
    /\ mem_storage = EmptyMap

(***************************************************************************)
(* C20. Tombstones do not survive a restart: delete(k) of a key that has   *)
(* an entry, be it a tombstone, appends a Delete record and returns 1; the *)
(* index rebuilt from the log has no entry for a key whose last record is  *)
(* a Delete, so that the first delete(k) after the restart returns 0 and   *)
(* appends nothing, although the log is the same.                          *)
(***************************************************************************)
\* The key has an entry that holds no value.
Tombstone(k) == HasEntry(k) /\ get(mem_storage, k) = None

\* The last record of key k in the log is a Delete.
DeletedLast(k) ==
    LastOf(k, Len(log)) # 0 /\ log[LastOf(k, Len(log))].type = "Delete"

\* C20: what a restart does to the tombstones, and what delete returns
\* before and after it.
TombstonesDoNotSurviveRestart ==
    [][ /\ RestartStep =>
              /\ log' = log
              /\ \A k \in Keys :
                    /\ Tombstone(k) /\ ~Mutating(k) => ~HasEntry(k)'
                    /\ DeletedLast(k) => ~HasEntry(k)'
                    /\ ~Tombstone(k)'
        /\ \A c \in DOMAIN pc :
              /\ Moved(c, "del_set", "reply") =>
                    /\ res'[c] = Ok(1)
                    /\ Tombstone(req[c].key)'
                    /\ DeletedLast(req[c].key)
              /\ (Moved(c, "del", "del_set") \/ Moved(c, "del", "reply")) =>
                    IF HasEntry(req[c].key)
                    THEN \/ log' = Append(log, DeleteMsg(req[c].key))
                         \/ res'[c].err /\ log' = log
                    ELSE res'[c] = Ok(0) /\ log' = log
      ]_vars

\* After a restart a delete has returned 0 and appended nothing for a key
\* that the log shows put and then deleted.
TombstonesDoNotSurviveRestartWitness ==
    \E c \in DOMAIN pc :
        /\ pc[c] = "reply"
        /\ req[c].op = "Del"
        /\ res[c] = Ok(0)
        /\ Len(log) = 2
        /\ log[1].type = "Put"
        /\ log[1].key = req[c].key
        /\ log[2] = DeleteMsg(req[c].key)

(***************************************************************************)
(* C21. The write guard of a Put or Del is held from before the append     *)
(* until its reply chunk is written or the write has failed: while it is   *)
(* held no engine call of another connection runs.  The read guard of a    *)
(* Get or Scan is gone before the first reply chunk is written.            *)
(***************************************************************************)
\* Connection c is between the engine call of its Put or Del and the end of
\* the write of its reply.
Mutator(c) ==
    \/ pc[c] \in {"put_insert", "del_set"}
    \/ pc[c] = "reply" /\ req[c].op \in {"Put", "Del"}

\* Connection c is about to make an engine call.
AtEngineCall(c) == pc[c] \in {"get", "put", "del", "scan"}

\* The guard is held by the connection that mutates, and by no connection
\* that only has a Get or Scan reply to write.
GuardWithMutator ==
    \A c \in DOMAIN pc :
        /\ Mutator(c) => write_guard = c
        /\ write_guard = c => Mutator(c)

\* C21: the steps that take, keep and drop the write guard.
GuardSpansReply ==
    /\ []GuardWithMutator
    /\ [][ \A c \in DOMAIN pc :
             /\ (log' # log /\ pc'[c] # pc[c]) =>
                   /\ write_guard = NoConn
                   /\ write_guard' = c
             /\ (write_guard = c /\ write_guard' = c) =>
                   \A d \in DOMAIN pc \ {c} :
                       AtEngineCall(d) =>
                           /\ pc'[d] = pc[d]
                           /\ res'[d] = res[d]
                           /\ scan_result'[d] = scan_result[d]
             /\ (write_guard = c /\ write_guard' # c) =>
                   /\ pc[c] = "reply"
                   /\ write_guard' = NoConn
                   /\ engine' = engine
                   /\ \/ /\ sent'[c] = Append(sent[c], reply_chunk(req[c], res[c]))
                         /\ reply_chunk(req[c], res[c]).tag
                               \in {"Success", "Number", "Error"}
                         /\ pc'[c] = "read"
                      \/ /\ fault'[c] = "write"
                         /\ pc'[c] = "failed"
                         /\ sent'[c] = sent[c]
             /\ (Moved(c, "get", "reply") \/ Moved(c, "scan", "scan_reply")) =>
                   /\ write_guard = NoConn
                   /\ write_guard' = NoConn
                   /\ sent'[c] = <<>>
           ]_vars

\* One connection has the reply of its Get still to write while another
\* holds the write guard with its record appended and its reply not written.
GuardSpansReplyWitness ==
    \E c, d \in DOMAIN pc :
        /\ pc[c] = "reply"
        /\ req[c].op = "Get"
        /\ sent[c] = <<>>
        /\ pc[d] = "reply"
        /\ req[d].op = "Del"
        /\ res[d] = Ok(1)
        /\ write_guard = d

(***************************************************************************)
(* Two connections on an engine whose index holds every key, as it is      *)
(* after three puts or after a restart on their log: a scan of the whole   *)
(* range takes more than one page, and the log has room for one record of  *)
(* the other connection.                                                   *)
(***************************************************************************)
SnapConns == {1, 2}

\* The two connections together send at most MaxSnapReqs request chunks.
MaxSnapReqs == 2

\* The log of one put per key, in the order of the keys.
FullLogs ==
    { [n \in 1..Len(keys) |-> PutMsg(keys[n], v)] :
        keys \in { ks \in [1..Cardinality(Keys) -> Keys] :
                      \A i, j \in DOMAIN ks :
                          i < j => encode(ks[i]) < encode(ks[j]) },
        v \in Values }

SnapInit ==
    /\ PoolInit
    /\ Idle
    /\ log \in FullLogs
    /\ mem_storage = read_log_file(log)
    /\ write_guard = NoConn
    /\ pc = [c \in SnapConns |-> "read"]
    /\ req = [c \in SnapConns |-> NoReq]
    /\ res = [c \in SnapConns |-> Ok(None)]
    /\ scan_result = [c \in SnapConns |-> <<>>]
    /\ idx = [c \in SnapConns |-> 0]
    /\ sent = [c \in SnapConns |-> <<>>]
    /\ fault = [c \in SnapConns |-> "none"]
    /\ nreq = 0

SnapNext ==
    \/ \E c \in DOMAIN pc : ReadChunk(c) /\ nreq < MaxSnapReqs /\ Alone
    \/ \E c \in DOMAIN pc : Get(c) /\ Alone
    \/ \E c \in DOMAIN pc : PutAppend(c) /\ Alone
    \/ \E c \in DOMAIN pc : PutInsert(c) /\ Alone
    \/ \E c \in DOMAIN pc : DeleteAppend(c) /\ Alone
    \/ \E c \in DOMAIN pc : DeleteSet(c) /\ Alone
    \/ \E c \in DOMAIN pc : WriteReply(c) /\ Alone
    \/ \E c \in DOMAIN pc : Scan(c) /\ Alone
    \/ \E c \in DOMAIN pc : ScanWritePage(c) /\ Alone
    \/ \E c \in DOMAIN pc : ScanWriteEnd(c) /\ Alone

SnapSpec == SnapInit /\ [][SnapNext]_vars

(***************************************************************************)
(* C22. A scan reply is a snapshot: the result is computed in one step     *)
(* from the index under the shared lock, stays what it was while the pages *)
(* are written, whatever the other connection does to the index, and the   *)
(* KVPairs chunks written are its pages in order, so that together they    *)
(* are the scan of that one index state.                                   *)
(***************************************************************************)
\* The pairs of the KVPairs chunks that connection c has written so far.
Written(c) ==
    Joined(SelectSeq(sent[c], LAMBDA chunk : chunk.tag = "KVPairs"),
           Len(SelectSeq(sent[c], LAMBDA chunk : chunk.tag = "KVPairs")))

\* The scan reply of c is under way, done or cut by a failed write.
ScanReplying(c) ==
    /\ req[c].op = "Scan"
    /\ pc[c] = "scan_reply" \/ pc[c] = "read" \/ fault[c] = "write"

\* What has been written is the start of the materialized result, all of
\* it once the reply is ended; its keys ascend, so none comes twice.
WrittenFromResult ==
    \A c \in DOMAIN pc :
        ScanReplying(c) =>
            /\ Len(Written(c)) <= Len(scan_result[c])
            /\ Written(c) = SubSeq(scan_result[c], 1, Len(Written(c)))
            /\ pc[c] = "read" => Written(c) = scan_result[c]
            /\ \A i, j \in 1..Len(Written(c)) :
                  i < j => encode(Written(c)[i][1]) < encode(Written(c)[j][1])

\* C22: the pairs of a scan reply are those of the index at the step that
\* held the shared lock.
ScanSnapshot ==
    /\ []WrittenFromResult
    /\ [][ \A c \in DOMAIN pc :
             /\ Moved(c, "scan", "scan_reply") =>
                   /\ write_guard = NoConn
                   /\ mem_storage' = mem_storage
                   /\ scan_result'[c]
                        = scan(mem_storage, req[c].key1, req[c].key2)
                   /\ sent'[c] = <<>>
             /\ pc[c] = "scan_reply" =>
                   /\ scan_result'[c] = scan_result[c]
                   /\ req'[c] = req[c]
                   /\ sent'[c] # sent[c] =>
                         /\ mem_storage' = mem_storage
                         /\ \/ /\ Written(c) # scan_result[c]
                               /\ sent'[c] = Append(sent[c],
                                    KVPairs(page(scan_result[c], Len(Written(c)))))
                            \/ /\ Written(c) = scan_result[c]
                               /\ sent'[c] = Append(sent[c], EmptyChunk)
           ]_vars

\* A scan reply of two pages is ended, and its last pair is of a key that
\* the other connection has deleted since the scan.
ScanSnapshotWitness ==
    \E c, d \in DOMAIN pc :
        /\ c # d
        /\ pc[c] = "read"
        /\ req[c].op = "Scan"
        /\ Len(sent[c]) = 3
        /\ Len(scan_result[c]) = 3
        /\ sent[c][2] = KVPairs(<< scan_result[c][3] >>)
        /\ req[d] = [op |-> "Del", key |-> scan_result[c][3][1]]
        /\ sent[d] = << Number(1) >>
        /\ get(mem_storage, scan_result[c][3][1]) = None
        /\ scan(mem_storage, req[c].key1, req[c].key2) # scan_result[c]

====
